---- MODULE Spec2Model ----
(***************************************************************************)
(* SendIt signaling server (server/python/main.py): the room registry, the *)
(* per-connection WebSocket handler, the REST room routes and the idle-room*)
(* janitor, as one state machine.                                          *)
(*                                                                         *)
(* The server is a single asyncio event loop: a task runs without          *)
(* interruption from one `await` to the next.  Every action below is one   *)
(* such run: it resumes a task at the await it is suspended in and carries *)
(* it to its next await (or to its end).  The awaits that separate two     *)
(* accesses to shared state are kept as suspension points:                 *)
(*   websocket.accept()                     (line 578)                     *)
(*   _send_json inside add_peer's loop      (line 227)                     *)
(*   _send_json inside remove_peer's loop   (line 252)                     *)
(*   _send_json inside relay_message's loop (line 278)                     *)
(*   peer.ws.close inside close_room's loop (line 292)                     *)
(*   websocket.receive()                    (line 627)                     *)
(* An await after which the task touches no shared state before its next   *)
(* suspension (the last send of add_peer, the error frame and close of a   *)
(* rejected connection, the "Rate limited" frame) is folded into the run   *)
(* that reaches it.                                                        *)
(*                                                                         *)
(* A client that goes away is seen by the server when its task next waits  *)
(* in websocket.receive(); the two are one action (Disconnect).            *)
(***************************************************************************)
EXTENDS Integers, Sequences, FiniteSets, TLC

(***************************************************************************)
(* Bounds of the model.                                                    *)
(***************************************************************************)
\* connection attempts in a behaviour (each runs websocket_signaling once)
MaxConns == 3
\* frames the clients send in a behaviour, all connections together
MaxFrames == 3
\* Config.MAX_ROOMS (10000 in the source), scaled so that capacity is reached
MAX_ROOMS == 2
\* Config.MAX_CONNECTIONS_PER_IP (10 in the source), scaled likewise
MAX_CONNECTIONS_PER_IP == 2
\* connections waiting in websocket.accept() at once
MaxPending == 2
\* connection attempts in a behaviour of SpecRelay
RelayConns == 2
\* codes generate_room_code draws in one call, the one it returns included
MaxDraws == 2
\* connection attempts in a behaviour of SpecRest
RestConns == 2
\* uploads in a behaviour (each runs store_file once)
MaxFiles == 2
\* bytes in an uploaded body
MaxBytes == 3
\* Config.CHUNK_SIZE (1 MiB in the source), scaled so that a body has chunks
CHUNK_SIZE == 2
\* Config.MAX_FILE_SIZE (5 GiB in the source), scaled
MAX_FILE_SIZE == 4096
\* Config.RELAY_FILE_TTL (3600 in the source, twelve cleanup periods), scaled
\* to two periods
RELAY_FILE_TTL == 600
\* steps of the clock in a behaviour of SpecFiles
FileTicks == 8
\* uploads in a behaviour of SpecCodec
CodecFiles == 1

(***************************************************************************)
(* Program constants.                                                      *)
(***************************************************************************)
MAX_PEERS_PER_ROOM == 2
ROOM_TIMEOUT == 3600
MAX_MESSAGES_PER_SECOND == 100
MIN_COMPRESS_SIZE == 1024
\* the argument of asyncio.sleep in FileRelay._cleanup_loop
RELAY_CLEANUP_PERIOD == 300

Conns == 1..MaxConns
\* source addresses (websocket.client.host)
IPs == {"10.0.0.1"}
\* the {room_code} path parameter of /ws/{room_code} and /api/rooms/{room_code}
PathCodes == {"ab23cd", "AB23CD"}
\* codes generate_room_code can draw
MintCodes == {"AB23CD", "XY45ZW", "QR67ST"}
\* the peerId query parameter; "" is the parameter left out (default None)
QueryPeerIds == {"", "p"}
\* the isHost query parameter
QueryIsHost == {"true", "TRUE", "false"}
\* the instants the clock takes (seconds): the start, and the first second
\* at which a room last active at the start has expired
TimePoints == {1, 2 + ROOM_TIMEOUT}

\* the values of a byte of an uploaded body
Bytes == {0, 1}
\* the bodies a client uploads
Bodies == UNION {[1..n -> Bytes] : n \in 0..MaxBytes}
\* UploadFile.size; 0 is None (the part came without a size)
DeclaredSizes == {0, MIN_COMPRESS_SIZE, MIN_COMPRESS_SIZE + 1, MAX_FILE_SIZE + 1}
\* the bodies and declared sizes of the uploads of SpecFiles
TimedBodies == {<<>>, <<1>>}
TimedSizes == {0, MIN_COMPRESS_SIZE + 1}
\* the {file_id} path parameter of the relay routes
FileIds == 1..MaxFiles
\* the instants the clock takes in SpecFiles: half a cleanup period apart
FileTimePoints == {1 + k * (RELAY_CLEANUP_PERIOD \div 2) : k \in 0..FileTicks}
\* the releases of python-lz4 by what decompress_chunk returns: two values
\* (data, bytes_read) in the early ones, three (data, bytes_read, eof) since
Lz4Builds == {2, 3}

\* a JSON key that is not in the object (dict.get returns None)
ABSENT == "<absent>"
\* Python truthiness of message.get("targetId"): None and "" are falsy
Truthy(v) == v # ABSENT /\ v # ""

\* str.upper() on the codes of the model
Upper(s) == CASE s = "ab23cd" -> "AB23CD" [] OTHER -> s
\* str.lower() on the isHost values of the model
Lower(s) == CASE s = "TRUE" -> "true" [] OTHER -> s
\* secrets.token_urlsafe(8): a token no other connection holds
Token(c) == "tok" \o ToString(c)

Max(a, b) == IF a >= b THEN a ELSE b

(***************************************************************************)
(* dict[str, Peer] (Room.peers).  CPython keeps the entries in insertion   *)
(* order; a deleted entry stays in the array as a hole until the dict is   *)
(* resized (not before the 6th insertion, beyond the bounds here); setting *)
(* an existing key overwrites the value in place.  An iterator holds its   *)
(* position, the size it saw at creation (di_used) and the number of items *)
(* it may still return (len); next() raises RuntimeError when the size     *)
(* differs, or when it finds an item with len exhausted.                   *)
(***************************************************************************)
Hole == [pid |-> ABSENT, peer |-> 0]
Live(d) == {i \in 1..Len(d) : d[i] # Hole}
DictLen(d) == Cardinality(Live(d))
DictHas(d, k) == \E i \in Live(d) : d[i].pid = k
DictIdx(d, k) == CHOOSE i \in Live(d) : d[i].pid = k
DictGet(d, k) == d[DictIdx(d, k)].peer
DictSet(d, k, v) ==
    IF DictHas(d, k) THEN [d EXCEPT ![DictIdx(d, k)] = [pid |-> k, peer |-> v]]
                     ELSE Append(d, [pid |-> k, peer |-> v])
DictPop(d, k) == [d EXCEPT ![DictIdx(d, k)] = Hole]
\* list(d) / list(d.values()): the live entries in order
RECURSIVE DictItems(_)
DictItems(d) ==
    IF d = <<>> THEN <<>>
    ELSE IF Head(d) = Hole THEN DictItems(Tail(d))
         ELSE <<Head(d)>> \o DictItems(Tail(d))
RECURSIVE SeqMap(_, _)
SeqMap(s, f) == IF s = <<>> THEN <<>> ELSE <<s[1][f]>> \o SeqMap(Tail(s), f)
DictKeys(d) == SeqMap(DictItems(d), "pid")
DictValues(d) == SeqMap(DictItems(d), "peer")

NoIter == [pos |-> 0, used |-> 0, len |-> 0]
Iter(d) == [pos |-> 1, used |-> DictLen(d), len |-> DictLen(d)]
\* one call of next(): "item" with its index, "stop", or "error" (RuntimeError)
IterNext(d, it) ==
    IF it.used # DictLen(d) THEN [st |-> "error", idx |-> 0, it |-> it]
    ELSE LET rest == {i \in Live(d) : i >= it.pos} IN
         IF rest = {} THEN [st |-> "stop", idx |-> 0, it |-> it]
         ELSE IF it.len = 0 THEN [st |-> "error", idx |-> 0, it |-> it]
         ELSE LET i == CHOOSE j \in rest : \A k \in rest : j <= k IN
              [st |-> "item", idx |-> i,
               it |-> [it EXCEPT !.pos = i + 1, !.len = it.len - 1]]
\* next() repeated while the loop body skips the item without awaiting:
\* stops at the first item whose key is in `want`, at the end, or at an error
RECURSIVE IterSeek(_, _, _)
IterSeek(d, it, want) ==
    LET n == IterNext(d, it) IN
    IF n.st = "item" /\ d[n.idx].pid \notin want THEN IterSeek(d, n.it, want)
    ELSE n

(***************************************************************************)
(* State.                                                                  *)
(***************************************************************************)
VARIABLES
    now,                \* time.time(), in seconds
    rooms,              \* RoomManager.rooms: dict code -> Room, in insertion order
    room,               \* the Room objects, by identity
    ip_connections,     \* RoomManager.ip_connections
    total_connections,  \* RoomManager.total_connections
    total_messages,     \* RoomManager.total_messages
    conn,               \* one websocket_signaling task (and its Peer) per connection
    jan,                \* the RoomManager._cleanup_loop task
    frames,             \* frames sent by the clients so far
    files,              \* FileRelay.files: dict file id -> FileMetadata
    disk,               \* the upload directory: path -> the object's content
    uploads,            \* the store_file calls in progress, by file id
    file_ids,           \* how many file ids generate_file_id has returned
    total_bytes_relayed,\* FileRelay.total_bytes_relayed
    relay_wake,         \* when the sleep of FileRelay._cleanup_loop ends
    response,           \* the last response of the relay API
    bodies,             \* history: the body uploaded under each file id
    lz4_build           \* how many values lz4.frame.decompress_chunk returns

relayvars == <<files, disk, uploads, file_ids, total_bytes_relayed, relay_wake,
               response, bodies, lz4_build>>
sigvars == <<rooms, room, ip_connections, total_connections, total_messages,
             conn, jan, frames>>
vars == <<now, rooms, room, ip_connections, total_connections, total_messages,
          conn, jan, frames, files, disk, uploads, file_ids, total_bytes_relayed,
          relay_wake, response, bodies, lz4_build>>

\* Room objects alive at once: those in the registry and those a task still holds
RoomIds == 1..(MAX_ROOMS + MaxConns)
AllPids == (QueryPeerIds \ {""}) \cup {Token(c) : c \in Conns}

\* Room.__init__ (no object: the id is free)
\* admitted is history, not a field of Room: whether add_peer ever ran on it
NoRoom == [code |-> "", peers |-> <<>>, last_activity |-> 0, message_count |-> 0,
           admitted |-> FALSE]
NewRoom(code) == [code |-> code, peers |-> <<>>, last_activity |-> now, message_count |-> 0,
                  admitted |-> FALSE]

NoMsg == [kind |-> "none", targetId |-> ABSENT, senderId |-> ABSENT, from |-> 0, body |-> 0]

\* the task before the connection is made; Peer.__init__ sets messages_sent
\* and last_message_time to 0
IdleConn ==
    [pc |-> "idle", ip |-> "", path_code |-> "", room_code |-> "", peer_id |-> "",
     is_host |-> FALSE, room |-> 0, it |-> NoIter, message |-> NoMsg, todo |-> <<>>,
     ws |-> "none", close_code |-> 0, outbox |-> <<>>,
     last_message_time |-> 0, messages_sent |-> 0]

JanIdle == [pc |-> "sleep", expired |-> <<>>, todo |-> <<>>]

\* the shared state and the tasks as one value, threaded through a run
World ==
    [rooms |-> rooms, room |-> room, ip |-> ip_connections, tc |-> total_connections,
     tm |-> total_messages, conn |-> conn, jan |-> jan]

(***************************************************************************)
(* The registry dict (RoomManager.rooms).                                  *)
(***************************************************************************)
RegHas(reg, k) == \E i \in 1..Len(reg) : reg[i].code = k
RegGet(reg, k) == IF RegHas(reg, k)
                  THEN reg[CHOOSE i \in 1..Len(reg) : reg[i].code = k].room
                  ELSE 0
RegDel(reg, k) == SelectSeq(reg, LAMBDA e : e.code # k)
RegSet(reg, k, r) ==
    IF RegHas(reg, k)
    THEN [i \in 1..Len(reg) |-> IF reg[i].code = k THEN [code |-> k, room |-> r] ELSE reg[i]]
    ELSE Append(reg, [code |-> k, room |-> r])
RegCodes(reg) == {reg[i].code : i \in 1..Len(reg)}

\* Room.is_expired
IsExpired(rm) == (now - rm.last_activity) > ROOM_TIMEOUT
\* Room.peer_count
PeerCount(rm) == DictLen(rm.peers)
\* Room.has_host
HasHost(w, rm) == \E i \in Live(rm.peers) : w.conn[rm.peers[i].peer].is_host

\* an id no Room object holds
FreshRoom(w) == CHOOSE r \in RoomIds : w.room[r] = NoRoom /\ \A q \in RoomIds : w.room[q] = NoRoom => r <= q

(***************************************************************************)
(* Frames the server writes to a channel.                                  *)
(***************************************************************************)
PeerJoinedFrame(pid, host, count) ==
    [type |-> "peer-joined", peerId |-> pid, isHost |-> host, peerCount |-> count]
RoomJoinedFrame(code, pid, host, count, peers) ==
    [type |-> "room-joined", roomCode |-> code, peerId |-> pid, isHost |-> host,
     peerCount |-> count, peers |-> peers]
\* faulty variant of PeerLeftFrame: the count includes the peer that left
PeerLeftFrameCountsLeaver(pid, count) ==
    [type |-> "peer-left", peerId |-> pid, peerCount |-> count + 1]
PeerLeftFrame(pid, count) == [type |-> "peer-left", peerId |-> pid, peerCount |-> count]
ErrorFrame(text) == [type |-> "error", message |-> text]
\* a relayed client object: message with message["senderId"] = sender_id
SignalFrame(m, sender_id) ==
    [type |-> "signal", targetId |-> m.targetId, senderId |-> sender_id,
     from |-> m.from, body |-> m.body]

\* faulty variant of Write: the frame overtakes those written before
WriteFirst(box, f) == <<f>> \o box

\* ws.send_bytes on connection c: the frame is written after those written before
Write(box, f) == Append(box, f)
\* RoomManager._send_json: a channel that is closed raises, and the error is swallowed
SendJson(w, c, f) ==
    IF w.conn[c].ws = "open"
    THEN [w EXCEPT !.conn[c].outbox = Write(@, f)]
    ELSE w

\* the task has returned (or raised out of the handler): the server closes the channel
Finish(w, c, pc) ==
    [w EXCEPT !.conn[c].pc = pc, !.conn[c].ws = "closed", !.conn[c].room = 0,
              !.conn[c].it = NoIter, !.conn[c].todo = <<>>, !.conn[c].message = NoMsg]

(***************************************************************************)
(* RoomManager: the runs of its coroutines between two awaits.             *)
(***************************************************************************)
\* faulty variant of GetRoom: an expired room is returned like any other
GetRoomNoReap(w, code) == [w |-> w, r |-> RegGet(w.rooms, Upper(code))]
\* RoomManager.get_room: the Room under code.upper(), or 0 (None); an expired
\* room is deleted from the registry on the way
GetRoom(w, code) ==
    LET k == Upper(code)
        r == RegGet(w.rooms, k)
    IN  IF r # 0 /\ IsExpired(w.room[r])
        THEN [w |-> [w EXCEPT !.rooms = RegDel(@, k)], r |-> 0]
        ELSE [w |-> w, r |-> r]

\* RoomManager.create_room after its capacity check, with the code
\* generate_room_code drew
CreateRoom(w, code) ==
    LET r == FreshRoom(w) IN
    [w EXCEPT !.room[r] = NewRoom(code), !.rooms = RegSet(@, code, r)]

\* RoomManager.close_room, lines 288-289: pop the room under code.upper() and
\* list its peers; the result is the world and the peers still to close
PopRoom(w, code) ==
    LET k == Upper(code)
        r == RegGet(w.rooms, k)
    IN  [w |-> [w EXCEPT !.rooms = RegDel(@, k)],
         todo |-> IF r = 0 THEN <<>> ELSE DictValues(w.room[r].peers)]

\* peer.ws.close(1000, "Room closed"): closing a closed channel raises, swallowed
CloseWs(w, x) ==
    IF w.conn[x].ws = "open"
    THEN [w EXCEPT !.conn[x].ws = "closed", !.conn[x].close_code = 1000]
    ELSE w

\* close_room's loop run by task c (called from remove_peer, line 260): close
\* the next peer's channel and wait in that close; return when none is left
CloseLoop(w, c) ==
    LET todo == w.conn[c].todo IN
    IF todo = <<>> THEN Finish(w, c, "done")
    ELSE LET w1 == CloseWs(w, Head(todo)) IN
         IF Tail(todo) = <<>> THEN Finish(w1, c, "done")
         ELSE [w1 EXCEPT !.conn[c].pc = "close_room", !.conn[c].todo = Tail(todo)]

\* faulty variant of RoomIsEmpty: the count is taken as if the leaver were still in
RoomIsEmptyBeforePop(rm) == PeerCount(rm) = 1

\* the emptiness test that ends remove_peer (line 259)
RoomIsEmpty(rm) == PeerCount(rm) = 0

\* remove_peer's loop (lines 251-260) from the iterator's next(): notify the
\* next survivor and wait in that send; at the end close the room if empty
RemoveLoop(w, c) ==
    LET me == w.conn[c]
        rm == w.room[me.room]
        n  == IterNext(rm.peers, me.it)
    IN  CASE n.st = "item" ->
               [SendJson(w, rm.peers[n.idx].peer, PeerLeftFrame(me.peer_id, PeerCount(rm)))
                   EXCEPT !.conn[c].pc = "remove_peer", !.conn[c].it = n.it]
          [] n.st = "stop" ->
               IF RoomIsEmpty(rm)
               THEN LET p == PopRoom(w, rm.code) IN
                    CloseLoop([p.w EXCEPT !.conn[c].todo = p.todo], c)
               ELSE Finish(w, c, "done")
          [] OTHER -> Finish(w, c, "crashed")   \* RuntimeError leaves the finally block

\* RoomManager.remove_peer up to its first await
RemovePeer(w, c, r) ==
    LET me == w.conn[c]
        d  == w.room[r].peers
    IN  IF DictHas(d, me.peer_id)
        THEN LET x  == DictGet(d, me.peer_id)      \* the Peer popped
                 d1 == DictPop(d, me.peer_id)
                 w1 == [w EXCEPT !.room[r].peers = d1,
                                 !.ip[w.conn[x].ip] = Max(0, @ - 1),
                                 !.conn[c].room = r,
                                 !.conn[c].it = Iter(d1)]
             IN  RemoveLoop(w1, c)
        ELSE Finish(w, c, "done")

\* the finally block of websocket_signaling (lines 651-655)
Finally(w, c) ==
    LET g == GetRoom(w, w.conn[c].room_code) IN
    IF g.r # 0 THEN RemovePeer(g.w, c, g.r) ELSE Finish(g.w, c, "done")

\* add_peer's loop (lines 225-242) from the iterator's next(): notify the next
\* prior member and wait in that send; at the end acknowledge to the new peer
\* and enter the receive loop
AddLoop(w, c) ==
    LET me == w.conn[c]
        rm == w.room[me.room]
        n  == IterSeek(rm.peers, me.it, AllPids \ {me.peer_id})
    IN  CASE n.st = "item" ->
               [SendJson(w, rm.peers[n.idx].peer,
                         PeerJoinedFrame(me.peer_id, me.is_host, PeerCount(rm)))
                   EXCEPT !.conn[c].pc = "add_peer", !.conn[c].it = n.it]
          [] n.st = "stop" ->
               [SendJson(w, c, RoomJoinedFrame(rm.code, me.peer_id, me.is_host, PeerCount(rm),
                                   SelectSeq(DictKeys(rm.peers), LAMBDA k : k # me.peer_id)))
                   EXCEPT !.conn[c].pc = "joined", !.conn[c].it = NoIter]
          [] OTHER -> Finish(w, c, "crashed")   \* RuntimeError, outside the try block

\* RoomManager.add_peer up to its first await (lines 219-225)
AddPeer(w, c, r) ==
    LET me == w.conn[c]
        d1 == DictSet(w.room[r].peers, me.peer_id, c)
        w1 == [w EXCEPT !.room[r].peers = d1,
                        !.room[r].admitted = TRUE,
                        !.room[r].last_activity = now,
                        !.tc = @ + 1,
                        !.ip[me.ip] = @ + 1,
                        !.conn[c].room = r,
                        !.conn[c].it = Iter(d1)]
    IN  AddLoop(w1, c)

\* the peers relay_message sends to (lines 272-275)
RelayWants(sender_id, target_id) ==
    {k \in AllPids : k # sender_id /\ (Truthy(target_id) => k = target_id)}

\* faulty variant of StampedSender: a senderId the client supplied is kept
StampedSenderKept(m, sender_id) == IF m.senderId # ABSENT THEN m.senderId ELSE sender_id

\* the senderId relay_message stamps on the copy (line 277)
StampedSender(m, sender_id) == sender_id

\* relay_message's loop (lines 271-284) from the iterator's next()
RelayLoop(w, c) ==
    LET me == w.conn[c]
        rm == w.room[me.room]
        n  == IterSeek(rm.peers, me.it, RelayWants(me.peer_id, me.message.targetId))
    IN  CASE n.st = "item" ->
               LET m1 == [me.message EXCEPT !.senderId = StampedSender(me.message, me.peer_id)] IN
               [SendJson(w, rm.peers[n.idx].peer, SignalFrame(m1, m1.senderId))
                   EXCEPT !.conn[c].pc = "relay", !.conn[c].it = n.it, !.conn[c].message = m1]
          [] n.st = "stop" -> [w EXCEPT !.conn[c].pc = "joined", !.conn[c].it = NoIter]
          [] OTHER -> Finally(w, c)             \* RuntimeError, caught at line 649

\* faulty variant of RateLimited: no frame is ever refused
RateLimitedNever(last_message_time) == FALSE

\* RoomManager.check_rate_limit: the test of line 299, in whole seconds
RateLimited(last_message_time) ==
    (now - last_message_time) * MAX_MESSAGES_PER_SECOND < 1

\* RoomManager.relay_message up to its first await (lines 264-271)
RelayMessage(w, c, m) ==
    LET me == w.conn[c]
        w1 == [w EXCEPT !.room[me.room].last_activity = now,
                        !.room[me.room].message_count = @ + 1,
                        !.tm = @ + 1,
                        !.conn[c].message = m]
    IN  IF m.kind # "object" THEN Finally(w1, c)   \* message.get: AttributeError
        ELSE RelayLoop([w1 EXCEPT !.conn[c].it = Iter(w1.room[me.room].peers)], c)

\* one turn of the receive loop (lines 627-645) for the frame m
OnFrame(w, c, m) ==
    LET me == w.conn[c] IN
    IF m.kind = "undecodable" THEN Finally(w, c)   \* orjson.loads raises
    ELSE IF RateLimited(me.last_message_time)
         THEN [w EXCEPT !.conn[c].outbox = Write(@, ErrorFrame("Rate limited"))]
         ELSE RelayMessage([w EXCEPT !.conn[c].last_message_time = now,
                                     !.conn[c].messages_sent = @ + 1], c, m)

(***************************************************************************)
(* websocket_signaling: admission.                                         *)
(***************************************************************************)
\* RoomManager.check_ip_limit
CheckIpLimit(ip) == ip_connections[ip] < MAX_CONNECTIONS_PER_IP

\* is_host.lower() == "true" (lines 586 and 617)
IsHostFlag(q) == Lower(q) = "true"

\* faulty variant of RoomFull: off by one
RoomFullOffByOne(rm) == PeerCount(rm) > MAX_PEERS_PER_ROOM

\* the capacity test of line 602
RoomFull(rm) == PeerCount(rm) >= MAX_PEERS_PER_ROOM

\* faulty variant of Reject: the channel is closed without the error frame
RejectSilently(w, c, text, code) ==
    [w EXCEPT !.conn[c].close_code = code, !.conn[c].ws = "closed", !.conn[c].pc = "closed"]

\* an error frame, then websocket.close(code), then return (lines 594-599, 603-608)
Reject(w, c, text, code) ==
    [w EXCEPT !.conn[c].outbox = Write(@, ErrorFrame(text)),
              !.conn[c].close_code = code,
              !.conn[c].ws = "closed",
              !.conn[c].pc = "closed"]

\* lines 601-622: the capacity check, the peer id, the Peer, add_peer
Enter(w, c, r) ==
    IF RoomFull(w.room[r]) THEN Reject(w, c, "Room is full", 4003)
    ELSE LET q == w.conn[c].peer_id IN
         AddPeer([w EXCEPT !.conn[c].peer_id = IF q = "" THEN Token(c) ELSE q], c, r)

\* faulty variant of HostCreate: the minted code keeps its slot
HostCreateKeepsMinted(w, c, code_new) ==
    LET rc == w.conn[c].room_code
        w1 == CreateRoom(w, code_new)
        r  == RegGet(w1.rooms, code_new)
    IN  [w1 EXCEPT !.rooms = RegSet(@, rc, r), !.room[r].code = rc]

\* lines 587-592: create_room, then move the new room under the requested code
HostCreate(w, c, code_new) ==
    LET rc == w.conn[c].room_code
        w1 == CreateRoom(w, code_new)
        r  == RegGet(w1.rooms, code_new)
    IN  IF ~RegHas(w1.rooms, rc)
        THEN [w1 EXCEPT !.rooms = RegSet(RegDel(@, code_new), rc, r), !.room[r].code = rc]
        ELSE w1

\* faulty variant of AtCapacity: off by one
AtCapacityOffByOne(reg) == Len(reg) > MAX_ROOMS

\* create_room's capacity test (line 201)
AtCapacity(reg) == Len(reg) >= MAX_ROOMS

\* what secrets.choice gives generate_room_code in one call: codes that are
\* taken, then one that is free (the loop of lines 194-197 ends there)
Draws(keys) ==
    {d \in UNION {[1..n -> MintCodes] : n \in 1..MaxDraws} :
        /\ d[Len(d)] \notin keys
        /\ \A i \in 1..(Len(d) - 1) : d[i] \in keys}
\* faulty variant of GenerateRoomCode: the first code drawn is returned
GenerateFirstDraw(keys, draws) == Head(draws)
\* RoomManager.generate_room_code: the first code drawn that is no key
RECURSIVE GenerateRoomCode(_, _)
GenerateRoomCode(keys, draws) ==
    IF Head(draws) \notin keys \/ Len(draws) = 1 THEN Head(draws)
    ELSE GenerateRoomCode(keys, Tail(draws))
\* RoomManager.create_room as a call: HTTPException(503) at capacity, else the
\* code of the room it made
CreateRoomCall(w, draws) ==
    IF AtCapacity(w.rooms)
    THEN [ok |-> FALSE, code |-> "", w |-> w]
    ELSE LET code == GenerateRoomCode(RegCodes(w.rooms), draws) IN
         [ok |-> TRUE, code |-> code, w |-> CreateRoom(w, code)]

\* faulty variant of NoLiveRoom: any connection creates the missing room
NoLiveRoomAnyoneCreates(w, c) == "create"

\* lines 580-599: the room of the connection, or none (the connection is over)
NoLiveRoom(w, c) ==
    IF w.conn[c].is_host
    THEN "create"
    ELSE "reject"

\* websocket_signaling from the return of accept() to its next await, with
\* code_new the code generate_room_code draws if a room is created
AdmitRun(w, c, code_new) ==
    LET w0 == [w EXCEPT !.conn[c].ws = "open",
                        !.conn[c].path_code = "",   \* line 580 overwrites room_code
                        !.conn[c].room_code = Upper(w.conn[c].path_code)]
        g  == GetRoom(w0, w0.conn[c].room_code)
    IN  IF g.r # 0 THEN Enter(g.w, c, g.r)
        ELSE IF NoLiveRoom(g.w, c) = "create"
             THEN IF AtCapacity(g.w.rooms)
                  THEN Finish(g.w, c, "crashed")  \* HTTPException(503) leaves the handler
                  ELSE LET w2 == HostCreate(g.w, c, code_new) IN
                       Enter(w2, c, RegGet(w2.rooms, w2.conn[c].room_code))
             ELSE Reject(g.w, c, "Room not found", 4004)

(***************************************************************************)
(* RoomManager._cleanup_loop.                                              *)
(***************************************************************************)
\* line 181: the codes of the expired rooms, in registry order
ExpiredCodes(w) ==
    SeqMap(SelectSeq(w.rooms, LAMBDA e : IsExpired(w.room[e.room])), "code")

\* lines 182-183 and close_room: close the peers of the room being closed one
\* by one, then go on to the next expired code; back to sleep when none is left
RECURSIVE JanRun(_, _, _)
JanRun(w, codes, todo) ==
    IF todo # <<>>
    THEN LET w1 == CloseWs(w, Head(todo)) IN
         IF Tail(todo) = <<>> /\ codes = <<>>
         THEN [w1 EXCEPT !.jan = JanIdle]
         ELSE [w1 EXCEPT !.jan = [pc |-> "closing", expired |-> codes, todo |-> Tail(todo)]]
    ELSE IF codes # <<>>
         THEN LET p == PopRoom(w, Head(codes)) IN JanRun(p.w, Tail(codes), p.todo)
         ELSE [w EXCEPT !.jan = JanIdle]

(***************************************************************************)
(* Actions.                                                                *)
(***************************************************************************)
\* a Room object nothing refers to is gone
Held(w) == {w.rooms[i].room : i \in 1..Len(w.rooms)} \cup {w.conn[c].room : c \in Conns}
\* the holes of a dict that no suspended loop iterates are unobservable
Iterated(w, r) ==
    \E c \in Conns : w.conn[c].room = r /\ w.conn[c].pc \in {"add_peer", "relay", "remove_peer"}
\* so is the Peer (and the request) of a task that is over, once no held room
\* and no close_room loop lists it
PeerHeld(w, c) ==
    \/ w.conn[c].pc \notin {"closed", "done", "crashed"}
    \/ \E r \in Held(w) \ {0} : \E i \in Live(w.room[r].peers) : w.room[r].peers[i].peer = c
    \/ \E b \in Conns : \E i \in 1..Len(w.conn[b].todo) : w.conn[b].todo[i] = c
    \/ \E i \in 1..Len(w.jan.todo) : w.jan.todo[i] = c
\* what is kept of such a task: how it ended, and for a rejected connection
\* the frame it was sent
Ended(cn) ==
    [IdleConn EXCEPT !.pc = cn.pc, !.ws = cn.ws, !.close_code = cn.close_code,
                     !.outbox = IF cn.pc = "closed" THEN cn.outbox ELSE <<>>]
Commit(w) ==
    /\ rooms' = w.rooms
    /\ room' = [r \in RoomIds |->
                  IF r \notin Held(w) THEN NoRoom
                  ELSE IF Iterated(w, r) THEN w.room[r]
                  ELSE [w.room[r] EXCEPT !.peers = DictItems(@)]]
    /\ ip_connections' = w.ip
    /\ total_connections' = w.tc
    /\ total_messages' = w.tm
    /\ conn' = [c \in Conns |-> IF PeerHeld(w, c) THEN w.conn[c] ELSE Ended(w.conn[c])]
    /\ jan' = w.jan
    /\ UNCHANGED relayvars

(***************************************************************************)
(* The file relay (FileRelay).  A body is a sequence of bytes; an object   *)
(* of the upload directory is the sequence of bytes written to it.         *)
(* name, mime_type and room_code of FileMetadata are stored as given and   *)
(* read by nothing: they are left out.                                     *)
(***************************************************************************)
NoFiles == [i \in {} |-> 0]
DictPut(f, k, v) == [x \in DOMAIN f \cup {k} |-> IF x = k THEN v ELSE f[x]]
DictDrop(f, k) == [x \in DOMAIN f \ {k} |-> f[x]]

\* upload_dir / file_id, and upload_dir / f"{file_id}.lz4"
PathOf(id, compressed) == [id |-> id, lz4 |-> compressed]

\* xxhash.xxh64: update() folds the bytes in, in order; hexdigest() is the
\* state.  Distinct byte sequences of the model have distinct digests.
HashInit == 0
RECURSIVE HashUpdate(_, _)
HashUpdate(h, chunk) ==
    IF chunk = <<>> THEN h ELSE HashUpdate(3 * h + Head(chunk) + 1, Tail(chunk))

\* The LZ4 frame format: a header, one block per compress_chunk call (its
\* length, then its data; the bodies here do not compress, LZ4 stores them
\* as literals), an end mark.
Lz4Magic == 9
Lz4EndMark == 8
Lz4Block(n) == 10 + n
\* lz4.frame.compress_begin
CompressBegin == <<Lz4Magic>>
\* lz4.frame.compress_chunk
CompressChunk(chunk) == <<Lz4Block(Len(chunk))>> \o chunk
\* lz4.frame.compress_flush
CompressFlush == <<Lz4EndMark>>

\* lz4.frame.create_decompression_context
NewDecompression == [phase |-> "header", left |-> 0]
\* lz4.frame.decompress_chunk: consumes the data given, in whatever pieces
\* it comes, and returns the bytes decoded so far; raises on data that is
\* no frame
RECURSIVE DecompressChunk(_, _, _)
DecompressChunk(ctx, data, out) ==
    IF data = <<>> \/ ctx.phase = "done" THEN [ctx |-> ctx, out |-> out, raised |-> FALSE]
    ELSE LET t == Head(data) IN
         IF ctx.phase = "header"
         THEN IF t = Lz4Magic
              THEN DecompressChunk([ctx EXCEPT !.phase = "block"], Tail(data), out)
              ELSE [ctx |-> ctx, out |-> out, raised |-> TRUE]
         ELSE IF ctx.left > 0
         THEN DecompressChunk([ctx EXCEPT !.left = @ - 1], Tail(data), Append(out, t))
         ELSE IF t = Lz4EndMark
         THEN DecompressChunk([ctx EXCEPT !.phase = "done"], Tail(data), out)
         ELSE IF t >= Lz4Block(0)
         THEN DecompressChunk([ctx EXCEPT !.left = t - Lz4Block(0)], Tail(data), out)
         ELSE [ctx |-> ctx, out |-> out, raised |-> TRUE]

\* f.read(config.CHUNK_SIZE) on an object of the directory
FirstChunk(data) == SubSeq(data, 1, IF Len(data) < CHUNK_SIZE THEN Len(data) ELSE CHUNK_SIZE)
AfterChunk(data) == SubSeq(data, Len(FirstChunk(data)) + 1, Len(data))

\* lines 446-453: one turn of the decompressing loop, what it yields.  The
\* statement unpacks two values: with a library that returns three it raises
\* ValueError, after the call, and the handler yields the chunk as read.
DecompressedOrRaw(ctx, chunk) ==
    LET r == DecompressChunk(ctx, chunk, <<>>) IN
    IF r.raised \/ lz4_build # 2 THEN [ctx |-> r.ctx, yield |-> chunk]
    ELSE [ctx |-> r.ctx, yield |-> r.out]
RECURSIVE StreamDecompress(_, _)
StreamDecompress(ctx, data) ==
    IF data = <<>> THEN <<>>
    ELSE LET y == DecompressedOrRaw(ctx, FirstChunk(data)) IN
         y.yield \o StreamDecompress(y.ctx, AfterChunk(data))

NoMeta == [id |-> 0, size |-> 0, checksum |-> 0, compressed |-> FALSE,
           original_size |-> 0, uploaded_at |-> 0, expires_at |-> 0]
NoResponse == [op |-> "none", id |-> 0, status |-> 0, body |-> <<>>, meta |-> NoMeta]
Response(op, id, status, body, meta) ==
    [op |-> op, id |-> id, status |-> status, body |-> body, meta |-> meta]

\* FileRelay.stream_file and the iterator it returns, run to its end: the
\* body of the response is what the iterator yields, in order
StreamFile(id, decompress) ==
    IF id \notin DOMAIN files THEN Response("download", id, 404, <<>>, NoMeta)
    ELSE LET meta == files[id]
             path == PathOf(id, meta.compressed) IN
         IF path \notin DOMAIN disk THEN Response("download", id, 404, <<>>, NoMeta)
         ELSE IF meta.compressed /\ decompress
         THEN Response("download", id, 200,
                       StreamDecompress(NewDecompression, disk[path]), meta)
         ELSE Response("download", id, 200, disk[path], meta)

\* faulty variant: the object is looked for under the name of a raw file
DeleteFileRawPath(fs, dk, id) ==
    IF id \notin DOMAIN fs THEN [files |-> fs, disk |-> dk]
    ELSE LET path == PathOf(id, FALSE) IN
         [files |-> DictDrop(fs, id),
          disk |-> IF path \in DOMAIN dk THEN DictDrop(dk, path) ELSE dk]
\* file_info: the response
GetFileInfo(id) ==
    IF id \in DOMAIN files THEN Response("info", id, 200, <<>>, files[id])
    ELSE Response("info", id, 404, <<>>, NoMeta)

\* FileRelay.delete_file: the metadata and the object left by it
DeleteFile(fs, dk, id) ==
    IF id \notin DOMAIN fs THEN [files |-> fs, disk |-> dk]
    ELSE LET path == PathOf(id, fs[id].compressed) IN
         [files |-> DictDrop(fs, id),
          disk |-> IF path \in DOMAIN dk THEN DictDrop(dk, path) ELSE dk]

\* faulty variant: a file is kept one period longer
FileExpiredLate(meta, t) == meta.expires_at # 0 /\ t > meta.expires_at + RELAY_CLEANUP_PERIOD
\* line 351: the test of the cleanup loop
FileExpired(meta, t) == meta.expires_at # 0 /\ t > meta.expires_at
\* lines 350-354: one pass of the cleanup loop; delete_file never suspends
RECURSIVE DeleteAll(_, _, _)
DeleteAll(fs, dk, ids) ==
    IF ids = {} THEN [files |-> fs, disk |-> dk]
    ELSE LET id == CHOOSE i \in ids : TRUE
             d  == DeleteFile(fs, dk, id) IN
         DeleteAll(d.files, d.disk, ids \ {id})

\* line 380: whether store_file takes the compressing branch
Compresses(compress, size) == compress /\ size # 0 /\ size > MIN_COMPRESS_SIZE

\* FileRelay.__init__ and start(), with the LZ4 library of one of `builds`
InitRelay(builds) ==
    /\ files = NoFiles
    /\ disk = NoFiles
    /\ uploads = NoFiles
    /\ file_ids = 0
    /\ total_bytes_relayed = 0
    /\ relay_wake = 1 + RELAY_CLEANUP_PERIOD
    /\ response = NoResponse
    /\ bodies = NoFiles
    /\ lz4_build \in builds

InitSignaling ==
    /\ now = 1
    /\ rooms = <<>>
    /\ room = [r \in RoomIds |-> NoRoom]
    /\ ip_connections = [i \in IPs |-> 0]
    /\ total_connections = 0
    /\ total_messages = 0
    /\ conn = [c \in Conns |-> IdleConn]
    /\ jan = JanIdle
    /\ frames = 0

Init == InitSignaling /\ InitRelay({3})

\* time passes
TickTo(points) ==
    /\ \E t \in points : t > now /\ now' = t
    /\ UNCHANGED <<rooms, room, ip_connections, total_connections, total_messages,
                   conn, jan, frames>>
    /\ UNCHANGED relayvars

Tick == TickTo(TimePoints)

\* a client opens /ws/{code}?peerId=..&isHost=..: lines 571-578
ConnectWith(c, codes, pids, hosts) ==
    /\ conn[c].pc = "idle"
    /\ \A b \in Conns : b < c => conn[b].pc # "idle"
    /\ Cardinality({b \in Conns : conn[b].pc = "accepting"}) < MaxPending
    /\ \E ip \in IPs, code \in codes, pid \in pids, host \in hosts :
         IF CheckIpLimit(ip)
         THEN conn' = [conn EXCEPT ![c].pc = "accepting", ![c].ip = ip,
                                   ![c].path_code = code, ![c].peer_id = pid,
                                   ![c].is_host = IsHostFlag(host)]
         ELSE conn' = [conn EXCEPT ![c].pc = "closed",
                                   ![c].ws = "closed", ![c].close_code = 4029]
    /\ UNCHANGED <<now, rooms, room, ip_connections, total_connections, total_messages,
                   jan, frames>>
    /\ UNCHANGED relayvars

Connect(c) == ConnectWith(c, PathCodes, QueryPeerIds, QueryIsHost)

\* accept() returns: lines 580-622 up to the first await of add_peer
Admit(c) ==
    /\ conn[c].pc = "accepting"
    /\ LET w0 == [World EXCEPT !.conn[c].room_code = Upper(conn[c].path_code)]
           g  == GetRoom(w0, w0.conn[c].room_code)
       IN  IF g.r = 0 /\ NoLiveRoom(g.w, c) = "create" /\ ~AtCapacity(g.w.rooms)
           THEN \E code_new \in MintCodes \ RegCodes(g.w.rooms) :
                    Commit(AdmitRun(World, c, code_new))
           ELSE Commit(AdmitRun(World, c, ""))
    /\ UNCHANGED <<now, frames>>

\* a send inside add_peer's loop returns
AddPeerResume(c) ==
    /\ conn[c].pc = "add_peer"
    /\ Commit(AddLoop(World, c))
    /\ UNCHANGED <<now, frames>>

\* the frames a client can send: a JSON object with or without targetId and
\* senderId, JSON that is no object, bytes that are no JSON
ClientMsgs(c) ==
    {[kind |-> "object", targetId |-> t, senderId |-> "evil", from |-> c, body |-> frames + 1] :
        t \in {ABSENT, "", "p", "nobody"}}
    \cup {[kind |-> "object", targetId |-> ABSENT, senderId |-> ABSENT, from |-> c,
           body |-> frames + 1]}
    \cup {[kind |-> k, targetId |-> ABSENT, senderId |-> ABSENT, from |-> c, body |-> frames + 1] :
        k \in {"scalar", "undecodable"}}

\* receive() returns a frame: lines 627-645 up to the next await
Receive(c) ==
    /\ conn[c].pc = "joined"
    /\ conn[c].ws = "open"
    /\ frames < MaxFrames
    /\ \E m \in ClientMsgs(c) : Commit(OnFrame(World, c, m))
    /\ frames' = frames + 1
    /\ UNCHANGED now

\* a send inside relay_message's loop returns
RelayResume(c) ==
    /\ conn[c].pc = "relay"
    /\ Commit(RelayLoop(World, c))
    /\ UNCHANGED <<now, frames>>

\* receive() reports the end of the channel (the client left, or the server
\* closed it): lines 647-655 up to the next await
Disconnect(c) ==
    /\ conn[c].pc = "joined"
    /\ Commit(Finally(World, c))
    /\ UNCHANGED <<now, frames>>

\* a send inside remove_peer's loop returns
RemovePeerResume(c) ==
    /\ conn[c].pc = "remove_peer"
    /\ Commit(RemoveLoop(World, c))
    /\ UNCHANGED <<now, frames>>

\* remove_peer calls close_room only on a room it has just emptied, in the run
\* that looked the room up: the room popped is that one and has no channel to
\* close, so no task ever waits inside that call
NoTaskInCloseRoom == \A c \in Conns : conn[c].pc # "close_room"

\* POST /api/rooms
RestCreateRoom ==
    /\ \E d \in Draws(RegCodes(rooms)) : Commit(CreateRoomCall(World, d).w)
    /\ UNCHANGED <<now, frames>>

\* GET /api/rooms/{room_code}
RestGetRoom ==
    /\ \E code \in PathCodes \cup MintCodes : Commit(GetRoom(World, Upper(code)).w)
    /\ UNCHANGED <<now, frames>>

\* the janitor's sleep ends: lines 181-183 up to the first await of close_room
JanitorWake ==
    /\ jan.pc = "sleep"
    /\ Commit(JanRun(World, ExpiredCodes(World), <<>>))
    /\ UNCHANGED <<now, frames>>

\* a close inside the janitor's close_room returns
JanitorResume ==
    /\ jan.pc = "closing"
    /\ Commit(JanRun(World, jan.expired, jan.todo))
    /\ UNCHANGED <<now, frames>>

(***************************************************************************)
(* The relay API.  store_file suspends at every read and write; what it    *)
(* touches between two of them is its own object of the directory, so a    *)
(* call is cut into three kinds of run: up to the first read, one turn of  *)
(* the reading loop, and from the empty read to the end.                   *)
(***************************************************************************)
\* POST /api/relay/upload: lines 669-672 and 372-389, up to the first read
UploadStart(body, size, compress) ==
    /\ IF size # 0 /\ size > MAX_FILE_SIZE
       THEN /\ response' = Response("upload", 0, 413, <<>>, NoMeta)
            /\ UNCHANGED <<disk, uploads, file_ids, bodies>>
       ELSE LET id == file_ids + 1
                compressed == Compresses(compress, size) IN
            /\ file_ids' = id
            /\ disk' = DictPut(disk, PathOf(id, compressed),
                               IF compressed THEN CompressBegin ELSE <<>>)
            /\ uploads' = DictPut(uploads, id,
                                  [rest |-> body, compressed |-> compressed,
                                   original_size |-> 0, hasher |-> HashInit])
            /\ bodies' = DictPut(bodies, id, body)
            /\ UNCHANGED response
    /\ UNCHANGED <<files, total_bytes_relayed, relay_wake, lz4_build, now>>
    /\ UNCHANGED sigvars

UploadBeginWith(limit, given, sizes) ==
    /\ file_ids < limit
    /\ \E body \in given, size \in sizes, compress \in BOOLEAN :
         UploadStart(body, size, compress)

UploadBegin == UploadBeginWith(MaxFiles, TimedBodies, TimedSizes)

\* file.read returns some bytes: lines 390-394 (or 403-406); a read returns
\* at most CHUNK_SIZE bytes and may return fewer
UploadChunk(id) ==
    /\ id \in DOMAIN uploads
    /\ uploads[id].rest # <<>>
    /\ \E n \in 1..CHUNK_SIZE :
         /\ n <= Len(uploads[id].rest)
         /\ LET up    == uploads[id]
                chunk == SubSeq(up.rest, 1, n)
                path  == PathOf(id, up.compressed) IN
            /\ uploads' = [uploads EXCEPT
                             ![id].rest = SubSeq(up.rest, n + 1, Len(up.rest)),
                             ![id].original_size = @ + Len(chunk),
                             ![id].hasher = HashUpdate(@, chunk)]
            /\ disk' = [disk EXCEPT ![path] =
                          @ \o (IF up.compressed THEN CompressChunk(chunk) ELSE chunk)]
    /\ UNCHANGED <<files, file_ids, total_bytes_relayed, relay_wake, response,
                   lz4_build, bodies, now>>
    /\ UNCHANGED sigvars

\* file.read returns no bytes: lines 396-427 (or 408-427) and 671-682
UploadEnd(id) ==
    /\ id \in DOMAIN uploads
    /\ uploads[id].rest = <<>>
    /\ LET up     == uploads[id]
           path   == PathOf(id, up.compressed)
           stored == disk[path] \o (IF up.compressed THEN CompressFlush ELSE <<>>)
           meta   == [id |-> id, size |-> Len(stored), checksum |-> up.hasher,
                      compressed |-> up.compressed, original_size |-> up.original_size,
                      uploaded_at |-> now, expires_at |-> now + RELAY_FILE_TTL] IN
       /\ disk' = [disk EXCEPT ![path] = stored]
       /\ total_bytes_relayed' = total_bytes_relayed + up.original_size
       /\ files' = DictPut(files, id, meta)
       /\ uploads' = DictDrop(uploads, id)
       /\ response' = Response("upload", id, 200, <<>>, meta)
    /\ UNCHANGED <<file_ids, relay_wake, lz4_build, bodies, now>>
    /\ UNCHANGED sigvars

\* GET /api/relay/download/{file_id}?decompress=..
Download(id, decompress) ==
    /\ response' = StreamFile(id, decompress)
    /\ UNCHANGED <<files, disk, uploads, file_ids, total_bytes_relayed, relay_wake,
                   lz4_build, bodies, now>>
    /\ UNCHANGED sigvars

\* GET /api/relay/info/{file_id}
FileInfo(id) ==
    /\ response' = GetFileInfo(id)
    /\ UNCHANGED <<files, disk, uploads, file_ids, total_bytes_relayed, relay_wake,
                   lz4_build, bodies, now>>
    /\ UNCHANGED sigvars

\* DELETE /api/relay/{file_id}
DeleteRelayFile(id) ==
    /\ LET d == DeleteFile(files, disk, id) IN
       /\ files' = d.files
       /\ disk' = d.disk
    /\ response' = Response("delete", id, 200, <<>>, NoMeta)
    /\ UNCHANGED <<uploads, file_ids, total_bytes_relayed, relay_wake, lz4_build,
                   bodies, now>>
    /\ UNCHANGED sigvars

\* the sleep of FileRelay._cleanup_loop ends: lines 349-356, one pass
RelayCleanup ==
    /\ now = relay_wake
    /\ LET expired == {id \in DOMAIN files : FileExpired(files[id], now)}
           d == DeleteAll(files, disk, expired) IN
       /\ files' = d.files
       /\ disk' = d.disk
    /\ relay_wake' = now + RELAY_CLEANUP_PERIOD
    /\ UNCHANGED <<uploads, file_ids, total_bytes_relayed, response, lz4_build,
                   bodies, now>>
    /\ UNCHANGED sigvars

\* time passes, up to the end of the cleanup loop's sleep: the loop sleeps
\* RELAY_CLEANUP_PERIOD seconds and a pass takes no time
TickFiles ==
    /\ \E t \in FileTimePoints : t > now /\ t <= relay_wake /\ now' = t
    /\ UNCHANGED sigvars
    /\ UNCHANGED relayvars

(***************************************************************************)
(* Spec: rooms and membership.  MaxConns connections with any parameters,  *)
(* room lookups and the janitor; every room is made by a host connection,  *)
(* and the clients send no frames.                                         *)
(***************************************************************************)
Next ==
    \/ Tick
    \/ \E c \in Conns : Connect(c)
    \/ \E c \in Conns : Admit(c)
    \/ \E c \in Conns : AddPeerResume(c)
    \/ \E c \in Conns : Disconnect(c)
    \/ \E c \in Conns : RemovePeerResume(c)
    \/ RestGetRoom
    \/ JanitorWake
    \/ JanitorResume

Spec == Init /\ [][Next]_vars

(***************************************************************************)
(* SpecRest: the registry.  Rooms are made by POST /api/rooms as well as   *)
(* by host connections, up to MAX_ROOMS; there are RestConns connections.  *)
(***************************************************************************)
ConnectRest(c) == c <= RestConns /\ Connect(c)

NextRest ==
    \/ Tick
    \/ \E c \in Conns : ConnectRest(c)
    \/ \E c \in Conns : Admit(c)
    \/ \E c \in Conns : AddPeerResume(c)
    \/ \E c \in Conns : Disconnect(c)
    \/ \E c \in Conns : RemovePeerResume(c)
    \/ RestCreateRoom
    \/ RestGetRoom
    \/ JanitorWake
    \/ JanitorResume

SpecRest == Init /\ [][NextRest]_vars

(***************************************************************************)
(* SpecRelay: signaling.  The clients send frames; there are RelayConns    *)
(* connections, all to the same path, rooms are made by host connections   *)
(* only, and no room lives long enough to expire.                          *)
(***************************************************************************)
ConnectRelay(c) == c <= RelayConns /\ ConnectWith(c, {"ab23cd"}, QueryPeerIds, {"true", "false"})
\* the clock steps by a second: no room expires
TickRelay == TickTo({1, 2})

NextRelay ==
    \/ TickRelay
    \/ \E c \in Conns : ConnectRelay(c)
    \/ \E c \in Conns : Admit(c)
    \/ \E c \in Conns : AddPeerResume(c)
    \/ \E c \in Conns : Receive(c)
    \/ \E c \in Conns : RelayResume(c)
    \/ \E c \in Conns : Disconnect(c)
    \/ \E c \in Conns : RemovePeerResume(c)

SpecRelay == Init /\ [][NextRelay]_vars

(***************************************************************************)
(* SpecFiles: the life of a relayed file.  MaxFiles uploads of short       *)
(* bodies, stored raw or compressed; downloads, info and delete of any id; *)
(* the clock and the cleanup loop.                                         *)
(***************************************************************************)
NextFiles ==
    \/ TickFiles
    \/ UploadBegin
    \/ \E id \in FileIds : UploadChunk(id)
    \/ \E id \in FileIds : UploadEnd(id)
    \/ \E id \in FileIds, decompress \in BOOLEAN : Download(id, decompress)
    \/ \E id \in FileIds : FileInfo(id)
    \/ \E id \in FileIds : DeleteRelayFile(id)
    \/ RelayCleanup

SpecFiles == Init /\ [][NextFiles]_vars

(***************************************************************************)
(* SpecCodec: the content of a relayed file.  CodecFiles uploads of any    *)
(* body, with any declared size, chunking and compress flag, and their     *)
(* downloads, under either release of the LZ4 library; the clock stands.   *)
(***************************************************************************)
InitCodec == InitSignaling /\ InitRelay(Lz4Builds)
UploadBeginCodec == UploadBeginWith(CodecFiles, Bodies, DeclaredSizes)

NextCodec ==
    \/ UploadBeginCodec
    \/ \E id \in FileIds : UploadChunk(id)
    \/ \E id \in FileIds : UploadEnd(id)
    \/ \E id \in FileIds, decompress \in BOOLEAN : Download(id, decompress)
    \/ \E id \in FileIds : FileInfo(id)
    \/ \E id \in FileIds : DeleteRelayFile(id)

SpecCodec == InitCodec /\ [][NextCodec]_vars

(***************************************************************************)
(* Properties.                                                             *)
(***************************************************************************)
\* the Room objects of the registry
Registered == {rooms[i].room : i \in 1..Len(rooms)}
\* the connections whose Peer is stored in room r
Members(r) == {room[r].peers[i].peer : i \in Live(room[r].peers)}
\* connection c is the Peer stored under its peer id in room r
MemberOf(c, r) ==
    /\ room[r] # NoRoom
    /\ DictHas(room[r].peers, conn[c].peer_id)
    /\ DictGet(room[r].peers, conn[c].peer_id) = c
\* no task is suspended inside add_peer, relay_message, remove_peer or close_room
Quiescent ==
    /\ jan.pc = "sleep"
    /\ \A c \in Conns : conn[c].pc \notin {"add_peer", "relay", "remove_peer", "close_room"}
\* sum(f.values())
RECURSIVE SumOver(_, _)
SumOver(f, S) ==
    IF S = {} THEN 0 ELSE LET x == CHOOSE y \in S : TRUE IN f[x] + SumOver(f, S \ {x})

\* C1: in every reachable state every Room object, in the registry or still
\* held by a task, has at most MAX_PEERS_PER_ROOM peers in its membership dict.
C1_RoomWithinCapacity ==
    \A r \in RoomIds : PeerCount(room[r]) <= MAX_PEERS_PER_ROOM
\* a registered room is full and a further connection to it was turned away
C1_Witness ==
    \E r \in Registered :
        /\ PeerCount(room[r]) = MAX_PEERS_PER_ROOM
        /\ \E c \in Conns \ Members(r) : conn[c].close_code = 4003

\* C2: in every reachable state every room has at most one member with
\* isHost = true.  (Admission never consults Room.has_host: violated.)
C2_AtMostOneHost ==
    \A r \in RoomIds : Cardinality({c \in Members(r) : conn[c].is_host}) <= 1

\* C3 as stated: at every quiescent point every room of the registry has at
\* least one member.  (A room made by POST /api/rooms has none: violated.)
C3_EveryRoomHasMember ==
    Quiescent => \A r \in Registered : PeerCount(room[r]) > 0
\* C3 as the code has it: at every quiescent point every room of the registry
\* that a peer was ever admitted to has at least one member; a registered room
\* without members is one that no peer has yet been admitted to.
C3_JoinedRoomHasMember ==
    Quiescent => \A r \in Registered : room[r].admitted => PeerCount(room[r]) > 0
\* a room that lost a member is still registered, with the member that is left
C3_Witness ==
    /\ Quiescent
    /\ \E r \in Registered : room[r].admitted /\ PeerCount(room[r]) = 1
    /\ \E c \in Conns : conn[c].pc = "done"

\* C4: at every quiescent point the per-address connection counts add up to
\* the number of peers in the rooms of the registry.  (A room removed by a
\* lookup or by the janitor takes its peers along without the counts: violated.)
C4_CountsMatchMembers ==
    Quiescent =>
        SumOver(ip_connections, IPs)
          = SumOver([r \in RoomIds |-> PeerCount(room[r])], Registered)

\* C5: every connection that add_peer admitted, whose channel is open and whose
\* task is in the receive loop, is the Peer stored under its peer id in exactly
\* one room, a room of the registry; and every Peer stored in a room of the
\* registry has an open channel.  (Violated.)
C5_JoinedIffMember ==
    /\ \A c \in Conns :
          conn[c].pc = "joined" /\ conn[c].ws = "open" =>
              /\ Cardinality({r \in RoomIds : MemberOf(c, r)}) = 1
              /\ \E r \in Registered : MemberOf(c, r)
    /\ \A r \in Registered : \A x \in Members(r) : conn[x].ws = "open"

\* the step in which accept() returns to connection c and its admission runs
AdmitStep(c) == conn[c].pc = "accepting" /\ conn'[c].pc # "accepting"
\* the registry key connection c asks for (line 580)
KeyOf(c) == Upper(conn[c].path_code)
\* a room is registered under k and has not expired
LiveRoomAt(k) == RegHas(rooms, k) /\ ~IsExpired(room[RegGet(rooms, k)])
\* the tasks that are over
Over == {"closed", "done", "crashed"}
\* connection c got the error frame and the close code and nothing else;
\* registry, rooms, counters and the other connections are as they were
TurnedAwayFull(c) ==
    /\ conn'[c].pc = "closed"
    /\ conn'[c].ws = "closed"
    /\ conn'[c].close_code = 4003
    /\ conn'[c].outbox = <<ErrorFrame("Room is full")>>
    /\ rooms' = rooms
    /\ room' = room
    /\ ip_connections' = ip_connections
    /\ total_connections' = total_connections
    /\ \A d \in Conns \ {c} : conn'[d] = conn[d]

\* C8 as stated: a connection whose admission finds MAX_PEERS_PER_ROOM peers
\* in the room registered under its code gets "Room is full" and close code
\* 4003, does not join, and changes nothing.  (An expired room is deleted by
\* the lookup instead: violated.)
C8_FullRoomRejects ==
    [][\A c \in Conns :
          (/\ AdmitStep(c)
           /\ RegHas(rooms, KeyOf(c))
           /\ PeerCount(room[RegGet(rooms, KeyOf(c))]) >= MAX_PEERS_PER_ROOM)
          => TurnedAwayFull(c)]_vars
\* C8 as the code has it: a connection whose admission finds MAX_PEERS_PER_ROOM
\* peers in the live (not expired) room registered under its code gets the
\* error frame "Room is full", is closed with code 4003 and does not join; the
\* registry, every membership, the per-address counts, the connection counter
\* and every other connection (no frame is sent to a member) stay as they were.
C8_LiveFullRoomRejects ==
    [][\A c \in Conns :
          (/\ AdmitStep(c)
           /\ LiveRoomAt(KeyOf(c))
           /\ PeerCount(room[RegGet(rooms, KeyOf(c))]) >= MAX_PEERS_PER_ROOM)
          => TurnedAwayFull(c)]_vars
\* a connection was turned away from a room whose two members never heard of it
C8_Witness ==
    \E c \in Conns, r \in Registered :
        /\ conn[c].pc = "closed"
        /\ conn[c].close_code = 4003
        /\ conn[c].outbox = <<ErrorFrame("Room is full")>>
        /\ Cardinality(Members(r)) = MAX_PEERS_PER_ROOM
        /\ c \notin Members(r)
        /\ \A x \in Members(r) : conn[x].pc = "joined" /\ conn[x].ws = "open"

\* C9: a connection without isHost = true whose admission finds no live room
\* under its code gets the error frame "Room not found", is closed with code
\* 4004 and does not join; the registry keeps its keys except an expired room
\* under that code, which the lookup deletes; no Room object is created or
\* changed, the counts stay, and no other running task is touched.
C9_NotFoundRejects ==
    [][\A c \in Conns :
          (AdmitStep(c) /\ ~conn[c].is_host /\ ~LiveRoomAt(KeyOf(c))) =>
              /\ conn'[c].pc = "closed"
              /\ conn'[c].ws = "closed"
              /\ conn'[c].close_code = 4004
              /\ conn'[c].outbox = <<ErrorFrame("Room not found")>>
              /\ rooms' = RegDel(rooms, KeyOf(c))
              /\ \A r \in RoomIds :
                    \/ room'[r] = room[r]
                    \/ r = RegGet(rooms, KeyOf(c)) /\ room'[r] = NoRoom
              /\ ip_connections' = ip_connections
              /\ total_connections' = total_connections
              /\ \A d \in Conns \ {c} :
                    /\ conn'[d].pc = conn[d].pc
                    /\ conn[d].pc \notin Over => conn'[d] = conn[d]]_vars
\* a guest was turned away although another room is registered
C9_Witness ==
    \E c \in Conns :
        /\ conn[c].pc = "closed"
        /\ conn[c].close_code = 4004
        /\ conn[c].outbox = <<ErrorFrame("Room not found")>>
        /\ ~conn[c].is_host
        /\ rooms # <<>>

\* the admission of host c creates the room: one new Room object, registered
\* under the requested key and under no other, with c as its only member
HostMadeRoom(c) ==
    LET k   == KeyOf(c)
        old == RegDel(rooms, k)          \* the registry once the lookup is done
        r   == RegGet(rooms', k)
    IN  /\ Len(rooms') = Len(old) + 1
        /\ RegCodes(rooms') = RegCodes(old) \cup {k}
        /\ \A q \in RegCodes(old) : RegGet(rooms', q) = RegGet(rooms, q)
        /\ r # 0
        /\ room[r] = NoRoom
        /\ room'[r].code = k
        /\ DictItems(room'[r].peers) = <<[pid |-> conn'[c].peer_id, peer |-> c]>>
        /\ conn'[c].pc = "joined"
        /\ conn'[c].ws = "open"
        /\ conn'[c].room = r
        /\ conn'[c].outbox = <<RoomJoinedFrame(k, conn'[c].peer_id, TRUE, 1, <<>>)>>
\* the admission of c puts it into the room already registered under its key
JoinedExisting(c) ==
    LET r == RegGet(rooms, KeyOf(c)) IN
    /\ rooms' = rooms
    /\ conn'[c].room = r
    /\ conn'[c].pc \in {"add_peer", "joined"}
    /\ DictHas(room'[r].peers, conn'[c].peer_id)
    /\ DictGet(room'[r].peers, conn'[c].peer_id) = c

\* C10: when the admission of a host connection to code X, in any letter case,
\* finds no live room under upper(X) and the registry (after the lookup) is
\* below MAX_ROOMS, the registry gains exactly one room, stored under upper(X)
\* with code = upper(X); the minted code is not a key unless it is upper(X);
\* the host is the only member and is sent room-joined with roomCode upper(X),
\* peerCount 1 and no peers.  Any connection whose X has the same uppercase
\* form, admitted while that room is live and not full, joins that same room.
C10_HostCreatesUnderUpper ==
    [][\A c \in Conns :
          /\ (/\ AdmitStep(c)
              /\ conn[c].is_host
              /\ ~LiveRoomAt(KeyOf(c))
              /\ Len(RegDel(rooms, KeyOf(c))) < MAX_ROOMS) => HostMadeRoom(c)
          /\ (/\ AdmitStep(c)
              /\ LiveRoomAt(KeyOf(c))
              /\ PeerCount(room[RegGet(rooms, KeyOf(c))]) < MAX_PEERS_PER_ROOM)
                => JoinedExisting(c)]_vars
\* a host has made room AB23CD and is alone in it; a connection that spells the
\* code in lower case is about to be admitted
C10_Witness ==
    \E h \in Conns, g \in Conns :
        /\ conn[h].pc = "joined"
        /\ conn[h].is_host
        /\ conn[h].outbox = <<RoomJoinedFrame("AB23CD", conn[h].peer_id, TRUE, 1, <<>>)>>
        /\ RegGet(rooms, "AB23CD") = conn[h].room
        /\ room[conn[h].room].code = "AB23CD"
        /\ Members(conn[h].room) = {h}
        /\ conn[g].pc = "accepting"
        /\ conn[g].path_code = "ab23cd"

\* the frames written to connection d in a step
NewFrames(d) ==
    LET old == conn[d].outbox
        new == conn'[d].outbox
    IN  IF Len(new) >= Len(old) /\ SubSeq(new, 1, Len(old)) = old
        THEN SubSeq(new, Len(old) + 1, Len(new))
        ELSE <<>>
\* connection d is handed a copy of the client frame numbered b in a step
Delivered(d, b) ==
    \E i \in 1..Len(NewFrames(d)) :
        NewFrames(d)[i].type = "signal" /\ NewFrames(d)[i].body = b
\* the two readings of "the message has a targetId"
TargetPresent(t) == t # ABSENT
TargetNamed(t) == t # ABSENT /\ t # ""
\* every copy handed out in a step goes to somebody else than its sender, to
\* the addressee only if the message has one, and names its sender
CopiesWellAddressed(HasTarget(_)) ==
    \A d \in Conns : \A i \in 1..Len(NewFrames(d)) :
        LET f == NewFrames(d)[i] IN
        f.type = "signal" =>
            /\ f.from # d
            /\ f.senderId = conn[f.from].peer_id
            /\ HasTarget(f.targetId) => conn[d].peer_id = f.targetId
\* when member c of a room has a JSON object accepted (not rate limited), the
\* other members it is meant for, as far as their channel is open, are handed
\* it: relay_message reaches the only other member before its first await
ObjectRelayed(c, HasTarget(_)) ==
    LET m == conn'[c].message IN
    (/\ conn[c].pc = "joined"
     /\ frames' = frames + 1
     /\ conn'[c].messages_sent = conn[c].messages_sent + 1
     /\ m.kind = "object"
     /\ MemberOf(c, conn[c].room)) =>
        \A x \in Members(conn[c].room) \ {c} :
            (conn[x].ws = "open" /\ (HasTarget(m.targetId) => conn[x].peer_id = m.targetId))
                => Delivered(x, m.body)

C7_PairwiseOrder ==
    \A d \in Conns : \A i, j \in 1..Len(conn[d].outbox) :
        LET f == conn[d].outbox[i]
            g == conn[d].outbox[j]
        IN  (i < j /\ f.type = "signal" /\ g.type = "signal" /\ f.from = g.from)
                => f.body < g.body
\* a receiver holds two copies from the same sender
C7_Witness ==
    \E d \in Conns : \E i, j \in 1..Len(conn[d].outbox) :
        /\ i < j
        /\ conn[d].outbox[i].type = "signal"
        /\ conn[d].outbox[j].type = "signal"
        /\ conn[d].outbox[i].from = conn[d].outbox[j].from

\* the step is connection c's receive loop taking the client frame m
Receives(c, m) ==
    /\ conn[c].pc = "joined"
    /\ conn[c].ws = "open"
    /\ frames' = frames + 1
    /\ now' = now
    /\ Commit(OnFrame(World, c, m))
\* frames orjson.loads accepts
Decoded(m) == m.kind \in {"object", "scalar"}
\* now - lastMessageAt >= 1 / MaxMessagesPerSecond
WithinRate(c) == (now - conn[c].last_message_time) * MAX_MESSAGES_PER_SECOND >= 1
\* the frame was refused: c is told so, and nothing else has changed
OnlyRateLimitedSent(c) ==
    /\ conn' = [conn EXCEPT ![c].outbox = Append(@, ErrorFrame("Rate limited"))]
    /\ conn'[c].pc = "joined"
    /\ conn'[c].ws = "open"
    /\ conn'[c].last_message_time = conn[c].last_message_time
    /\ conn'[c].messages_sent = conn[c].messages_sent
    /\ room' = room
    /\ rooms' = rooms
    /\ total_messages' = total_messages
    /\ ip_connections' = ip_connections
    /\ total_connections' = total_connections

\* C11: for each decoded frame of a joined peer the rate check passes iff
\* now - last_message_time >= 1 / MAX_MESSAGES_PER_SECOND.  When it passes the
\* frame is counted (the global message counter moves) and, the task going on,
\* last_message_time becomes now and messages_sent grows by one.  When it fails
\* the peer is sent the error "Rate limited", no peer is handed the frame, the
\* peer's and the room's fields and the counters stay, and the peer stays
\* joined with its channel open.
C11_RateLimit ==
    [][\A c \in Conns : \A m \in ClientMsgs(c) :
          (Receives(c, m) /\ Decoded(m)) =>
              IF WithinRate(c)
              THEN /\ total_messages' = total_messages + 1
                   /\ m.kind = "object" =>
                        /\ conn'[c].pc \in {"joined", "relay"}
                        /\ conn'[c].last_message_time = now
                        /\ conn'[c].messages_sent = conn[c].messages_sent + 1
              ELSE OnlyRateLimitedSent(c)]_vars
\* a peer was refused a frame and had a later one relayed to the other member
C11_Witness ==
    \E c \in Conns, d \in Conns :
        /\ c # d
        /\ conn[c].pc = "joined"
        /\ conn[c].messages_sent = 2
        /\ frames = 3
        /\ \E i \in 1..Len(conn[c].outbox) : conn[c].outbox[i] = ErrorFrame("Rate limited")
        /\ \E j \in 1..Len(conn[d].outbox) :
              /\ conn[d].outbox[j].type = "signal"
              /\ conn[d].outbox[j].from = c
              /\ conn[d].outbox[j].body = 3

\* C12: when a joined peer sends a frame that is no JSON, only that frame is
\* skipped: nothing is relayed, the peer stays joined and a member of its
\* room, and nobody is sent anything.  (orjson.loads raises, the handler
\* leaves its loop and remove_peer runs: violated.)
C12_UndecodableSkipped ==
    [][\A c \in Conns : \A m \in ClientMsgs(c) :
          (Receives(c, m) /\ m.kind = "undecodable") =>
              /\ conn'[c].pc = "joined"
              /\ conn'[c].ws = "open"
              /\ room' = room
              /\ rooms' = rooms
              /\ \A d \in Conns : conn'[d].outbox = conn[d].outbox]_vars

\* C13: the registry never holds more than MAX_ROOMS rooms, whoever creates
\* them; create_room called with the registry at MAX_ROOMS fails and leaves
\* the registry and the rooms as they are, and otherwise adds one room under
\* the code it returns, which was no key before; generate_room_code returns a
\* code outside any set of keys it is given.
C13_RegistryWithinCapacity ==
    /\ Len(rooms) <= MAX_ROOMS
    /\ \A d \in Draws(RegCodes(rooms)) :
          LET res == CreateRoomCall(World, d) IN
          IF Len(rooms) >= MAX_ROOMS
          THEN ~res.ok /\ res.w.rooms = rooms /\ res.w.room = room
          ELSE /\ res.ok
               /\ res.code \notin RegCodes(rooms)
               /\ Len(res.w.rooms) = Len(rooms) + 1
               /\ RegCodes(res.w.rooms) = RegCodes(rooms) \cup {res.code}
               /\ \A q \in RegCodes(rooms) : RegGet(res.w.rooms, q) = RegGet(rooms, q)
    /\ \A keys \in SUBSET MintCodes : \A d \in Draws(keys) :
          GenerateRoomCode(keys, d) \notin keys
\* the registry is full with a room made by POST /api/rooms, and a host
\* connection that asked for another room was ended by create_room
C13_Witness ==
    /\ Len(rooms) = MAX_ROOMS
    /\ \A i \in 1..Len(rooms) : ~room[rooms[i].room].admitted
    /\ total_connections = 0
    /\ \E c \in Conns : conn[c].pc = "crashed"

\* add_peer, started for connection c in this step or earlier, is over after it
AddPeerEnds(c) ==
    /\ conn'[c].pc # "add_peer"
    /\ \/ conn[c].pc = "add_peer"
       \/ /\ AdmitStep(c)
          /\ total_connections' = total_connections + 1
\* the room-joined frames in a channel
RoomJoinedIn(box) == {i \in 1..Len(box) : box[i].type = "room-joined"}

\* C14: add_peer ends with the new peer joined and sent exactly one
\* room-joined, whose peerCount is the size of the room with the new peer and
\* whose peers are the ids of the other members, also when members leave or
\* join while the notifications are sent.  (A member leaving during the
\* notification pass makes the loop raise RuntimeError: violated.)
C14_AdmissionAcknowledged ==
    [][\A c \in Conns :
          AddPeerEnds(c) =>
              LET box == conn'[c].outbox
                  rm  == room'[conn'[c].room]
              IN  /\ conn'[c].pc = "joined"
                  /\ Cardinality(RoomJoinedIn(box)) = 1
                  /\ box[Len(box)].type = "room-joined"
                  /\ box[Len(box)].peerCount = PeerCount(rm)
                  /\ box[Len(box)].peers =
                        SelectSeq(DictKeys(rm.peers), LAMBDA k : k # conn'[c].peer_id)]_vars

\* the step is a run of the janitor: from its sleep, or from a close it waited in
JanitorStep ==
    /\ now' = now
    /\ frames' = frames
    /\ \/ jan.pc = "sleep" /\ Commit(JanRun(World, ExpiredCodes(World), <<>>))
       \/ jan.pc = "closing" /\ Commit(JanRun(World, jan.expired, jan.todo))
\* the rooms of the registry that the step takes out of it
Unregistered == {r \in Registered : \A i \in 1..Len(rooms') : rooms'[i].room # r}

\* C15: a run of the janitor that starts from its sleep leaves no expired room
\* behind: each is removed in the run or is still on the janitor's list; the
\* members of a room the janitor removes have their channels closed with code
\* 1000 or are on the janitor's list of channels to close; and the janitor
\* removes no room that is not expired.  (The list of expired codes is taken
\* once, and a code on it is closed later whatever room it then names:
\* violated.)
C15_JanitorReapsOnlyExpired ==
    [][JanitorStep =>
          /\ jan.pc = "sleep" =>
                \A r \in Registered :
                    IsExpired(room[r]) =>
                        \/ r \in Unregistered
                        \/ \E i \in 1..Len(jan'.expired) : jan'.expired[i] = room[r].code
          /\ \A r \in Unregistered :
                /\ IsExpired(room[r])
                /\ \A x \in Members(r) :
                      \/ conn'[x].ws = "closed" /\ (conn[x].ws = "open" => conn'[x].close_code = 1000)
                      \/ \E i \in 1..Len(jan'.todo) : jan'.todo[i] = x]_vars

\* the files whose metadata a step removes
Removed == DOMAIN files \ DOMAIN files'
\* a pass of the cleanup loop
CleanupStep == now = relay_wake /\ relay_wake' # relay_wake
\* the step ends an upload: store_file registers the metadata of file id
Stored(id) == id \notin DOMAIN files /\ id \in DOMAIN files'
\* no object of the directory without metadata, but for the uploads in progress
NoOrphan == \A path \in DOMAIN disk : path.id \in DOMAIN files \cup DOMAIN uploads

\* C16: a stored file has expires_at = uploaded_at + RELAY_FILE_TTL, where
\* uploaded_at is the instant store_file registered it; a delete by the user
\* removes its metadata and its object at any time; with the cleanup loop
\* waking every RELAY_CLEANUP_PERIOD seconds, no file and no object of a
\* file is left later than expires_at + RELAY_CLEANUP_PERIOD; and a pass of
\* the loop removes only files whose expires_at has passed.
C16_FileLifetime ==
    /\ [](/\ \A id \in DOMAIN files :
               /\ files[id].expires_at = files[id].uploaded_at + RELAY_FILE_TTL
               /\ now <= files[id].expires_at + RELAY_CLEANUP_PERIOD
               /\ LET d == DeleteFile(files, disk, id) IN
                  /\ id \notin DOMAIN d.files
                  /\ \A path \in DOMAIN d.disk : path.id # id
           /\ NoOrphan)
    /\ [][/\ \A id \in FileIds : Stored(id) => files'[id].uploaded_at = now
          /\ CleanupStep => \A id \in Removed : now > files[id].expires_at]_vars
\* a file registered when a pass of the loop was due, reaped by the loop at
\* the last instant allowed: the response to its upload is still the last
\* response, so no delete was asked
C16_Witness ==
    /\ response.op = "upload"
    /\ response.status = 200
    /\ response.id \notin DOMAIN files
    /\ \A path \in DOMAIN disk : path.id # response.id
    /\ now = response.meta.expires_at + RELAY_CLEANUP_PERIOD

\* the objects of the directory that belong to file id
ObjectsOf(dk, id) == {path \in DOMAIN dk : path.id = id}

\* C17: DELETE of a file removes its metadata and its object, and info and
\* download for that id then answer 404; DELETE of an id that has no
\* metadata (deleted before, or never issued) changes neither the metadata
\* nor the directory; DELETE always answers success; and the metadata and
\* objects of every other id are as they were.
C17_DeleteIdempotent ==
    [][\A id \in FileIds :
          DeleteRelayFile(id) =>
             /\ response'.status = 200
             /\ id \notin DOMAIN files'
             /\ id \in DOMAIN files => ObjectsOf(disk', id) = {}
             /\ GetFileInfo(id)'.status = 404
             /\ \A decompress \in BOOLEAN : StreamFile(id, decompress)'.status = 404
             /\ id \notin DOMAIN files => files' = files /\ disk' = disk
             /\ \A other \in FileIds \ {id} :
                   /\ other \in DOMAIN files <=> other \in DOMAIN files'
                   /\ other \in DOMAIN files => files'[other] = files[other]
                   /\ ObjectsOf(disk', other) = ObjectsOf(disk, other)
                   /\ \A path \in ObjectsOf(disk, other) : disk'[path] = disk[path]]_vars
\* a file was deleted by DELETE, before any file could expire, and the other
\* file is still there with its object
C17_Witness ==
    /\ response.op = "delete"
    /\ now <= RELAY_FILE_TTL
    /\ response.id \in DOMAIN bodies
    /\ response.id \notin DOMAIN files \cup DOMAIN uploads
    /\ ObjectsOf(disk, response.id) = {}
    /\ \E other \in DOMAIN files : PathOf(other, files[other].compressed) \in DOMAIN disk

\* C18: an upload takes the compressing branch iff compress is set and the
\* declared size is above MIN_COMPRESS_SIZE, and is stored as it began; the
\* original_size of a stored file is the length of the body uploaded and its
\* checksum the hash of that body; and a download with decompress set
\* answers with exactly that body.  (The decompressing loop unpacks two
\* values from lz4.frame.decompress_chunk: with a library that returns three
\* every turn raises and the chunk is sent as stored: violated.)
C18_RoundTrip ==
    /\ [](\A id \in DOMAIN files :
             /\ files[id].original_size = Len(bodies[id])
             /\ files[id].checksum = HashUpdate(HashInit, bodies[id])
             /\ PathOf(id, files[id].compressed) \in DOMAIN disk =>
                   /\ StreamFile(id, TRUE).status = 200
                   /\ StreamFile(id, TRUE).body = bodies[id])
    /\ [][/\ \A body \in Bodies, size \in DeclaredSizes, compress \in BOOLEAN :
               UploadStart(body, size, compress) /\ file_ids' # file_ids =>
                  uploads'[file_ids'].compressed = (compress /\ size > MIN_COMPRESS_SIZE)
          /\ \A id \in FileIds :
               Stored(id) => files'[id].compressed = uploads[id].compressed]_vars

\* the connections add_peer has added whose task has not yet reached
\* remove_peer: their Peer has not been destroyed
NotDestroyed(ip) ==
    {c \in Conns : conn[c].ip = ip /\ conn[c].pc \in {"add_peer", "joined", "relay"}}

\* C19: every Peer that add_peer added is destroyed exactly once when its
\* task ends, however it ends: the count of its address goes down by one, so
\* that the count of an address is the number of its Peers not yet destroyed,
\* and a connection whose task is over is stored in no room of the registry.
\* (A task whose room is no longer registered, or that RuntimeError throws
\* out of add_peer, ends without remove_peer: violated.)
C19_PeerDestroyedOnce ==
    /\ \A ip \in IPs : ip_connections[ip] = Cardinality(NotDestroyed(ip))
    /\ \A c \in Conns :
          conn[c].pc \in Over => \A r \in Registered : c \notin Members(r)

\* the step in which connection c is made (lines 571-578)
ConnectStep(c) == conn[c].pc = "idle" /\ conn'[c].pc # "idle"
\* the connections from ip that are in the receive loop
JoinedFrom(ip) == {c \in Conns : conn[c].ip = ip /\ conn[c].pc = "joined"}

\* C20: the count of an address and the number of its joined peers never
\* exceed MAX_CONNECTIONS_PER_IP, however many of its connections wait in
\* accept() at once; and a connection made while every address is at the
\* limit is closed with code 4029, is sent nothing, and leaves the registry,
\* the rooms, the counts and the other connections as they were.  (The count
\* is checked before accept() and incremented after it: violated.)
C20_PerAddressLimit ==
    /\ [](\A ip \in IPs :
             /\ ip_connections[ip] <= MAX_CONNECTIONS_PER_IP
             /\ Cardinality(JoinedFrom(ip)) <= MAX_CONNECTIONS_PER_IP)
    /\ [][\A c \in Conns :
             (ConnectStep(c) /\ \A ip \in IPs : ip_connections[ip] >= MAX_CONNECTIONS_PER_IP)
             => /\ conn'[c].pc = "closed"
                /\ conn'[c].ws = "closed"
                /\ conn'[c].close_code = 4029
                /\ conn'[c].outbox = <<>>
                /\ rooms' = rooms
                /\ room' = room
                /\ ip_connections' = ip_connections
                /\ total_connections' = total_connections
                /\ \A d \in Conns \ {c} : conn'[d] = conn[d]]_vars

\* the task of connection c is suspended at a send in the middle of its pass
\* over the members of a room (add_peer, relay_message or remove_peer)
InPass(c) == conn[c].pc \in {"add_peer", "relay", "remove_peer"}
\* the step is not one of connection c's task
OthersStep(c) == conn'[c].pc = conn[c].pc /\ conn'[c].it = conn[c].it

\* C21: while a task is suspended at a send in the middle of its pass over a
\* room's members, no step of another task changes the members of that room,
\* and the pass does not end in an error with its update of the room applied.
\* (No lock is held over the sends: another task adds or removes a member and
\* the suspended loop raises RuntimeError when it resumes: violated.)
C21_PassesSerialized ==
    [][\A c \in Conns :
          InPass(c) =>
             /\ conn'[c].pc # "crashed"
             /\ OthersStep(c) =>
                   DictItems(room'[conn[c].room].peers) = DictItems(room[conn[c].room].peers)]_vars

\* the step in which the task of connection c leaves its receive loop and
\* runs its finally block up to the first await
LeaveStep(c) == conn[c].pc = "joined" /\ conn'[c].pc # "joined"
\* the entries of room r other than the one stored under pid
Survivors(r, pid) == SelectSeq(DictItems(room[r].peers), LAMBDA e : e.pid # pid)

\* C22: remove_peer on the live room registered under the leaving task's code.
\* If the task's peer id is a key of the room, that entry and no other is
\* removed; every other member whose channel is open is sent one peer-left
\* frame with that peer id and the number of remaining members, and nobody
\* else is sent anything; if no member remains the code is no longer
\* registered and a lookup of it finds nothing.  If the peer id is no key of
\* the room, then the registry, its rooms, the counts and every other
\* connection are as they were.  (The connections meant are those whose task
\* is not over.)
C22_RemovePeer ==
    [][\A c \in Conns :
          LeaveStep(c) /\ LiveRoomAt(conn[c].room_code) =>
             LET k   == conn[c].room_code
                 r   == RegGet(rooms, k)
                 pid == conn[c].peer_id
                 S   == Survivors(r, pid)
                 to  == {S[i].peer : i \in 1..Len(S)}
             IN  IF DictHas(room[r].peers, pid)
                 THEN /\ conn'[c].pc # "crashed"
                      /\ IF S = <<>>
                         THEN /\ ~RegHas(rooms', k)
                              /\ GetRoom(World, k)'.r = 0
                         ELSE /\ RegGet(rooms', k) = r
                              /\ DictItems(room'[r].peers) = S
                      /\ \A x \in Conns \ {c} :
                            conn[x].pc \notin Over =>
                            conn'[x].outbox =
                               IF x \in to /\ conn[x].ws = "open"
                               THEN Append(conn[x].outbox,
                                           [type |-> "peer-left", peerId |-> pid,
                                            peerCount |-> Len(S)])
                               ELSE conn[x].outbox
                 ELSE /\ rooms' = rooms
                      /\ \A q \in Registered : room'[q] = room[q]
                      /\ ip_connections' = ip_connections
                      /\ \A x \in Conns \ {c} :
                            conn[x].pc \notin Over => conn'[x] = conn[x]]_vars
\* a member left and the one that remains, still joined and alone in its
\* registered room, was told so
C22_Witness ==
    \E x \in Conns :
        /\ conn[x].pc = "joined"
        /\ conn[x].outbox # <<>>
        /\ conn[x].outbox[Len(conn[x].outbox)].type = "peer-left"
        /\ conn[x].outbox[Len(conn[x].outbox)].peerCount = 1
        /\ \E r \in Registered : Members(r) = {x}

\* the step adds connection c to a room (add_peer runs in its admission)
Added(c) == AdmitStep(c) /\ total_connections' = total_connections + 1

\* C23: get_room never returns an expired room.  For every code, if the room
\* registered under the uppercased code has been idle for more than
\* ROOM_TIMEOUT seconds, the call returns None and leaves the registry
\* without that code and otherwise as it was; if not, it returns the room
\* registered there (None if there is none) and changes nothing.  And a
\* connection is only ever added to a room made in its own admission or to
\* one that was not expired when the admission ran.
C23_LookupNeverExpired ==
    /\ [](\A code \in PathCodes \cup MintCodes :
             LET k == Upper(code)
                 r == RegGet(rooms, k)
                 g == GetRoom(World, code)
             IN  IF r # 0 /\ now - room[r].last_activity > ROOM_TIMEOUT
                 THEN /\ g.r = 0
                      /\ g.w = [World EXCEPT !.rooms = RegDel(rooms, k)]
                 ELSE /\ g.r = r
                      /\ g.w = World)
    /\ [][\A c \in Conns :
             Added(c) =>
                \E r \in RoomIds :
                   /\ c \in {room'[r].peers[i].peer : i \in Live(room'[r].peers)}
                   /\ \/ room[r] = NoRoom
                      \/ now - room[r].last_activity <= ROOM_TIMEOUT]_vars
\* a connection that was no host came for a code whose room had expired and
\* was told "Room not found"; the room was taken out of the registry by the
\* lookup, not by the janitor: its member's channel is still open
C23_Witness ==
    \E c \in Conns, d \in Conns :
        /\ conn[c].pc = "closed"
        /\ conn[c].close_code = 4004
        /\ conn[d].pc = "joined"
        /\ conn[d].ws = "open"
        /\ conn[d].room \notin Registered
        /\ IsExpired(room[conn[d].room])
        /\ ~RegHas(rooms, room[conn[d].room].code)

====
